---------------------------- MODULE Spec2Model ----------------------------
(***************************************************************************)
(* A model of the pure core of app.py (MoSe.ai astro server): the cusp     *)
(* list reduction cusps_to_12, the house classifier house_of, the wheel    *)
(* encoder hd_from_lon, the time resolver parse_ts_from_inputs and the     *)
(* 88-degree back-solver find_design_datetime_exact.                       *)
(*                                                                         *)
(* Every component is a function of its inputs, so each has its own        *)
(* specification: Init draws the inputs from bounded sets and the actions  *)
(* run the function.  The variables of the components that a               *)
(* specification does not run stay at their idle values.                   *)
(*                                                                         *)
(* Floating point.  Python floats are IEEE doubles.  A degree value is     *)
(* modelled as [u, e]: u whole degrees (or grid units) plus e times a      *)
(* rounding-size quantity that is far smaller than any grid step.  The     *)
(* operations below say, case by case, what the double operation returns   *)
(* on the values the model feeds it.                                       *)
(***************************************************************************)
EXTENDS Integers, Sequences, FiniteSets, TLC

VARIABLES
    hPc, hLon, hCusps, hRet, hFallback,     \* house_of
    wPc, wLon, wRet, wShift,                \* hd_from_lon
    cPc, cIn, cOut,                         \* cusps_to_12
    tPc, tData, tOut, tTwin,                \* parse_ts_from_inputs
    sPc, sFn, target, t_lo, t_hi, f_lo, f_hi, attempts, iters, evals, sRet, sPath
                                            \* find_design_datetime_exact

houseVars == <<hPc, hLon, hCusps, hRet, hFallback>>
wheelVars == <<wPc, wLon, wRet, wShift>>
cuspVars == <<cPc, cIn, cOut>>
timeVars == <<tPc, tData, tOut, tTwin>>
solverVars == <<sPc, sFn, target, t_lo, t_hi, f_lo, f_hi, attempts, iters, evals, sRet, sPath>>

vars == <<houseVars, wheelVars, cuspVars, timeVars, solverVars>>

-----------------------------------------------------------------------------
(* Bounds of the model *)

\* number of equally spaced positions of the circle the 12 cusps are drawn from
GridN == 13

\* cusps_to_12 is fed lists of 0 to MaxCusps values
MaxCusps == 14

\* the largest explicit offset the time resolver is fed, in days
MaxOffsetDays == 1

\* bisection steps in which an arbitrary longitude function answers freely,
\* before it keeps to one side
FreeSteps == 2

\* the wheel encoder is fed longitudes from -MaxTurns to MaxTurns + 1 turns
MaxTurns == 1

-----------------------------------------------------------------------------
(* Degrees as doubles: [u |-> whole degrees, e |-> tiny offset in ulps] *)

Deg(u, e) == [u |-> u, e |-> e]

NoHd == [gate |-> 0, line |-> 0, color |-> 0, tone |-> 0, base |-> 0]

\* the values of a component's variables while another component runs
HouseIdle ==
    /\ hPc = "idle" /\ hLon = Deg(0, 0) /\ hCusps = <<>>
    /\ hRet = 0 /\ hFallback = FALSE

WheelIdle == wPc = "idle" /\ wLon = 0 /\ wRet = NoHd /\ wShift = NoHd

CuspIdle == cPc = "idle" /\ cIn = [isList |-> FALSE, items |-> <<>>] /\ cOut = [ok |-> FALSE]

None == [k |-> "none"]

NoData ==
    [timestamp_utc |-> None, date_local |-> None, geburtsdatum |-> None,
     time_local |-> None, geburtszeit |-> None, tz_name |-> None,
     raw_offset |-> None, dst_offset |-> None]

NoInstant == [day |-> 0, sec |-> 0]

NoResult == [ok |-> FALSE, dt |-> NoInstant, mode |-> "", error |-> "not called"]

TimeIdle == tPc = "idle" /\ tData = NoData /\ tOut = NoResult /\ tTwin = NoResult

Ang(m, p) == [m |-> m, p |-> p]

Td(sec, us) == [s |-> sec, us |-> us]

SolverIdle ==
    /\ sPc = "idle" /\ sFn = [kind |-> "none"] /\ target = Ang(0, 0)
    /\ t_lo = Td(0, 0) /\ t_hi = Td(0, 0) /\ f_lo = Ang(0, 0) /\ f_hi = Ang(0, 0)
    /\ attempts = 0 /\ iters = 0 /\ evals = 0 /\ sRet = Td(0, 0) /\ sPath = ""

DLt(a, b) == a.u < b.u \/ (a.u = b.u /\ a.e < b.e)

DLeq(a, b) == a.u < b.u \/ (a.u = b.u /\ a.e <= b.e)

\* x + 360.0 for 0 <= x < 128: the sum lies in [256, 512), where doubles are
\* 2^-44 apart, while x carries at most one ulp of its own binade (<= 2^-46):
\* the sum rounds to the whole degree.  Whole degrees add exactly.
DAdd360(x) == Deg(x.u + 360, IF x.u < 128 \/ (x.u = 128 /\ x.e < 0) THEN 0 ELSE x.e)

\* normalize_deg: float(x) % 360.0, plus 360.0 if still negative.  Python's
\* float % already returns a result with the sign of the divisor: for a tiny
\* negative x it computes fmod(x, 360.0) + 360.0, which rounds to 360.0.
normalize_deg(x) ==
    IF x.u = 0 /\ x.e < 0 THEN Deg(360, 0) ELSE Deg(x.u % 360, x.e)

-----------------------------------------------------------------------------
(* house_of *)

\* edges = c + [c[0] + 360.0]   (1-based here: edges[1..13])
HouseEdges(c) == c \o <<DAdd360(c[1])>>

\* the loop of house_of from index i (0-based as in the source) on; the result
\* says whether it came from inside the loop or from the final "return 12"
RECURSIVE HouseLoop(_, _, _)
HouseLoop(L, edges, i) ==
    IF i = 12 THEN [house |-> 12, fallback |-> TRUE]
    ELSE LET start == edges[i + 1]
             end   == edges[i + 2]
             P     == IF DLeq(start, L) THEN L ELSE DAdd360(L)
         IN  IF DLeq(start, P) /\ DLt(P, end)
             THEN [house |-> i + 1, fallback |-> FALSE]
             ELSE HouseLoop(L, edges, i + 1)

house_of(lon, cusps12) == HouseLoop(normalize_deg(lon), HouseEdges(cusps12), 0)

\* the inputs: 12 distinct positions of a grid of GridN, read in increasing
\* order from any of them on (so cusp 1 may be anywhere on the circle), and a
\* longitude on a cusp, between two cusps, a turn away, or one ulp off
GridStep == 360 \div GridN

GridPos == {k * GridStep : k \in 0 .. GridN - 1}

RECURSIVE SortedSeq(_)
SortedSeq(S) ==
    IF S = {} THEN <<>>
    ELSE LET m == CHOOSE x \in S : \A y \in S : x <= y
         IN  <<m>> \o SortedSeq(S \ {m})

Rotate(s, r) == [i \in 1 .. Len(s) |-> s[((i - 1 + r) % Len(s)) + 1]]

CuspInputs ==
    {[i \in 1 .. 12 |-> Deg(Rotate(SortedSeq(S), r)[i], 0)] :
        S \in {T \in SUBSET GridPos : Cardinality(T) = 12}, r \in 0 .. 11}

LonBase == GridPos \cup {p + GridStep \div 2 : p \in GridPos}

LonInputs ==
    {Deg(b + 360 * t, 0) : b \in LonBase, t \in -1 .. 1}
    \cup {Deg(b, e) : b \in {x \in LonBase : x < 128}, e \in {-1, 1}}

HouseInit ==
    /\ hPc = "call"
    /\ hLon \in LonInputs
    /\ hCusps \in CuspInputs
    /\ hRet = 0
    /\ hFallback = FALSE
    /\ WheelIdle /\ CuspIdle /\ TimeIdle /\ SolverIdle

HouseOf ==
    /\ hPc = "call"
    /\ LET r == house_of(hLon, hCusps)
       IN  /\ hRet' = r.house
           /\ hFallback' = r.fallback
    /\ hPc' = "done"
    /\ UNCHANGED <<hLon, hCusps, wheelVars, cuspVars, timeVars, solverVars>>

HouseNext == HouseOf

HouseSpec == HouseInit /\ [][HouseNext]_vars

-----------------------------------------------------------------------------
(* Claims about house_of *)

\* the cusps advance forward around the circle exactly once
WellFormed(c) ==
    /\ Len(c) = 12
    /\ \A i \in 1 .. 12 : c[i].e = 0 /\ c[i].u \in 0 .. 359
    /\ \A i, j \in 1 .. 12 : i # j => c[i].u # c[j].u
    /\ Cardinality({i \in 1 .. 12 : c[(i % 12) + 1].u < c[i].u}) = 1

\* the longitude as a point of [0, 360): a value just below 0 is just below 360
CirclePoint(x) == IF x.e < 0 /\ x.u % 360 = 0 THEN Deg(360, x.e) ELSE Deg(x.u % 360, x.e)

\* x lies on the arc [a, b), which wraps through 0 when b < a
InArc(x, a, b) ==
    IF DLt(a, b) THEN DLeq(a, x) /\ DLt(x, b) ELSE DLeq(a, x) \/ DLt(x, b)

ArcsOf(x, c) == {i \in 1 .. 12 : InArc(CirclePoint(x), c[i], c[(i % 12) + 1])}

\* C1: for well-formed cusps house_of returns the index of the one arc
\* [cusp_i, cusp_{i+1}) that contains the longitude
C1_HouseIsArc ==
    (hPc = "done" /\ WellFormed(hCusps)) => ArcsOf(hLon, hCusps) = {hRet}

\* C2: for well-formed cusps house_of returns from inside its loop; the final
\* "return 12" is never reached
C2_NoFallback ==
    (hPc = "done" /\ WellFormed(hCusps)) => ~hFallback

-----------------------------------------------------------------------------
(* hd_from_lon *)

(***************************************************************************)
(* Wheel quantities are counted in base sizes: 1 unit = 360/69120 degree = *)
(* 1/192 degree.  GATE_SIZE (5.625), LINE_SIZE (0.9375) and COLOR_SIZE     *)
(* (0.15625) are exact doubles.  TONE_SIZE = COLOR_SIZE / 6.0 and          *)
(* BASE_SIZE = TONE_SIZE / 5.0 are not: rounded to the nearest double they *)
(* are 5/192 + 4 eps and 1/192 + 2 eps degrees, eps = 2^-60 / 3 degree.    *)
(* A wheel quantity is [u |-> units, e |-> multiples of eps]; e stays      *)
(* below 1000 eps, 10^13 times smaller than a unit, so the order is        *)
(* lexicographic.  Longitudes are multiples of 1/64 degree (3 units):      *)
(* these are exact doubles, and so are their sums and differences here.    *)
(***************************************************************************)
UnitsPerDeg == 192

Circle == 360 * UnitsPerDeg

GATE_SIZE == Deg(Circle \div 64, 0)

LINE_SIZE == Deg(GATE_SIZE.u \div 6, 0)

COLOR_SIZE == Deg(LINE_SIZE.u \div 6, 0)

TONE_SIZE == Deg(COLOR_SIZE.u \div 6, 4)

BASE_SIZE == Deg(TONE_SIZE.u \div 5, 2)

GATE_ORDER ==
    << 25,17,21,51,42,3, 27,24,2,23,8, 20,16,35,45,12,15,
       52,39,53,62,56, 31,33,7,4,29, 59,40,64,47,6,46,
       18,48,57,32,50, 28,44,1,43,14, 34,9,5,26,11,10,
       58,38,54,61,60, 41,19,13,49,30, 55,37,63,22,36 >>

\* normalize_deg(330 + 28.25) = 358.25 degrees, in units
START_DEG == 68784

\* a // b for doubles a >= 0, b > 0: CPython takes the exact fmod and returns
\* the floor of the true quotient
FloorDiv(a, b) ==
    LET n == a.u \div b.u
    IN  IF DLeq(Deg(0, 0), Deg(a.u - n * b.u, a.e - n * b.e)) THEN n ELSE n - 1

\* a % b for doubles a >= 0, b > 0: fmod is exact
FMod(a, b) ==
    LET n == FloorDiv(a, b)
    IN  Deg(a.u - n * b.u, a.e - n * b.e)

\* lon in units, a multiple of 3
hd_from_lon(lon) ==
    LET x      == lon % Circle
        delta  == Deg((x - START_DEG) % Circle, 0)
        idx    == FloorDiv(delta, GATE_SIZE)
        inside == Deg(delta.u - idx * GATE_SIZE.u, 0)
        line   == FloorDiv(inside, LINE_SIZE) + 1
        color  == FloorDiv(FMod(inside, LINE_SIZE), COLOR_SIZE) + 1
        tone   == FloorDiv(FMod(inside, COLOR_SIZE), TONE_SIZE) + 1
        base   == FloorDiv(FMod(inside, TONE_SIZE), BASE_SIZE) + 1
    IN  [gate |-> GATE_ORDER[idx + 1], line |-> line, color |-> color,
         tone |-> tone, base |-> base]

WheelInputs == {3 * k : k \in -(MaxTurns * (Circle \div 3)) .. (MaxTurns + 1) * (Circle \div 3) - 1}

WheelInit ==
    /\ wPc = "call"
    /\ wLon \in WheelInputs
    /\ wRet = NoHd
    /\ wShift = NoHd
    /\ HouseIdle /\ CuspIdle /\ TimeIdle /\ SolverIdle

\* one call on the longitude and one on the longitude plus a gate size
HdFromLon ==
    /\ wPc = "call"
    /\ wRet' = hd_from_lon(wLon)
    /\ wShift' = hd_from_lon(wLon + GATE_SIZE.u)
    /\ wPc' = "done"
    /\ UNCHANGED <<wLon, houseVars, cuspVars, timeVars, solverVars>>

WheelNext == HdFromLon

WheelSpec == WheelInit /\ [][WheelNext]_vars

-----------------------------------------------------------------------------
(* Claims about hd_from_lon *)

WheelDelta(lon) == ((lon % Circle) - START_DEG) % Circle

\* the digits of delta with radices 64 | 6, 6, 6, 5
WheelDigits(lon) ==
    LET d == WheelDelta(lon)
    IN  [gate  |-> GATE_ORDER[(d \div 1080) + 1],
         line  |-> ((d % 1080) \div 180) + 1,
         color |-> ((d % 180) \div 30) + 1,
         tone  |-> ((d % 30) \div 5) + 1,
         base  |-> (d % 5) + 1]

\* C9: gate, line, color, tone and base are the nested-remainder digits of
\* delta; every level is in range; 358.25 degrees gives 25/1/1/1/1; one gate
\* size further the gate is the next of the table and the rest is unchanged
C9_WheelDigits ==
    wPc = "done" =>
        /\ wRet = WheelDigits(wLon)
        /\ wRet.gate \in 1 .. 64 /\ wRet.line \in 1 .. 6 /\ wRet.color \in 1 .. 6
        /\ wRet.tone \in 1 .. 6 /\ wRet.base \in 1 .. 5
        /\ (wLon = START_DEG => wRet = [gate |-> 25, line |-> 1, color |-> 1, tone |-> 1, base |-> 1])
        /\ wShift.gate = GATE_ORDER[(((WheelDelta(wLon) \div 1080) + 1) % 64) + 1]
        /\ [wShift EXCEPT !.gate = wRet.gate] = wRet

-----------------------------------------------------------------------------
(* cusps_to_12 *)

(***************************************************************************)
(* A cusp value handed to cusps_to_12 is counted in tenths of a            *)
(* millidegree; round(float(x), 3) keeps whole millidegrees.  The inputs   *)
(* end in 0, 3 or 7 tenths, so no value is half way.                       *)
(***************************************************************************)
Round3(v) == IF v % 10 < 5 THEN v \div 10 ELSE v \div 10 + 1

\* cusps is [isList, items]: a Python list or tuple (0-based there) or, with
\* isList FALSE, a value of another type
cusps_to_12(cusps) ==
    IF ~cusps.isList THEN [ok |-> FALSE, error |-> "keine Cusp-Liste"]
    ELSE LET n == Len(cusps.items)
         IN  IF n >= 13
             THEN [ok |-> TRUE, list |-> [i \in 1 .. 12 |-> Round3(cusps.items[i + 1])]]
             ELSE IF n = 12
             THEN [ok |-> TRUE, list |-> [i \in 1 .. 12 |-> Round3(cusps.items[i])]]
             ELSE [ok |-> FALSE, error |-> "cusps-Laenge unerwartet"]

\* lists of n values 30 degrees apart from a first value
CuspListInputs ==
    {[isList |-> TRUE,
      items |-> [i \in 1 .. n |-> ((first + 300000 * (i - 1)) % 3600000) + frac]] :
        n \in 0 .. MaxCusps, first \in {0, 123450, 3456780}, frac \in {0, 3, 7}}
    \cup {[isList |-> FALSE, items |-> <<>>]}

CuspsInit ==
    /\ cPc = "call"
    /\ cIn \in CuspListInputs
    /\ cOut = [ok |-> FALSE]
    /\ HouseIdle /\ WheelIdle /\ TimeIdle /\ SolverIdle

CuspsTo12 ==
    /\ cPc = "call"
    /\ cOut' = cusps_to_12(cIn)
    /\ cPc' = "done"
    /\ UNCHANGED <<cIn, houseVars, wheelVars, timeVars, solverVars>>

CuspsNext == CuspsTo12

CuspsSpec == CuspsInit /\ [][CuspsNext]_vars

\* C10: only lists of exactly 12 values (kept in order) or exactly 13 values
\* (reduced to elements 1..12) are accepted; every other length fails
C10_Only12Or13 ==
    (cPc = "done" /\ cIn.isList) =>
        LET n == Len(cIn.items)
        IN  /\ n = 12 => cOut.ok /\ cOut.list = [i \in 1 .. 12 |-> Round3(cIn.items[i])]
            /\ n = 13 => cOut.ok /\ cOut.list = [i \in 1 .. 12 |-> Round3(cIn.items[i + 1])]
            /\ n \notin {12, 13} => ~cOut.ok

-----------------------------------------------------------------------------
(* parse_ts_from_inputs *)

(***************************************************************************)
(* A value of the request dict is a record tagged k: "none" (absent or     *)
(* null), "num" (a JSON number), "str" (a string, given by the form of its *)
(* text and the fields written in it) or "other" (any other type).  A      *)
(* naive datetime is [day |-> proleptic Gregorian ordinal, sec |-> second  *)
(* of the day], as datetime keeps it for its arithmetic.                   *)
(***************************************************************************)
IsLeap(y) == y % 4 = 0 /\ (y % 100 # 0 \/ y % 400 = 0)

DaysInMonth(y, m) ==
    IF m = 2 THEN (IF IsLeap(y) THEN 29 ELSE 28)
    ELSE IF m \in {4, 6, 9, 11} THEN 30 ELSE 31

RECURSIVE DaysBeforeMonth(_, _)
DaysBeforeMonth(y, m) ==
    IF m = 1 THEN 0 ELSE DaysBeforeMonth(y, m - 1) + DaysInMonth(y, m - 1)

DaysBeforeYear(y) ==
    LET p == y - 1 IN p * 365 + p \div 4 - p \div 100 + p \div 400

Ymd2Ord(y, m, d) == DaysBeforeYear(y) + DaysBeforeMonth(y, m) + d

ValidDate(y, m, d) ==
    y \in 1 .. 9999 /\ m \in 1 .. 12 /\ d \in 1 .. DaysInMonth(y, m)

MkInstant(y, m, d, h, mi, sec) ==
    [day |-> Ymd2Ord(y, m, d), sec |-> h * 3600 + mi * 60 + sec]

\* datetime - timedelta(seconds = n)
MinusSeconds(dt, n) ==
    LET total == dt.sec - n
    IN  [day |-> dt.day + total \div 86400, sec |-> total % 86400]

\* datetime.utcfromtimestamp of a whole number of seconds
utcfromtimestamp(v) == [day |-> Ymd2Ord(1970, 1, 1) + v \div 86400, sec |-> v % 86400]

Ok(dt, mode) == [ok |-> TRUE, dt |-> dt, mode |-> mode, error |-> ""]

Fail(err) == [ok |-> FALSE, dt |-> NoInstant, mode |-> "", error |-> err]

\* Python truth of a dict value: None and "" are false
Truthy(v) == v.k # "none" /\ ~(v.k = "str" /\ v.form = "empty")

\* a or b
PyOr(a, b) == IF Truthy(a) THEN a ELSE b

\* datetime.fromisoformat, then the two returns of lines 128-129.  The text is
\* YYYY-MM-DDTHH:MM:SS followed by nothing, by Z (rewritten to +00:00 at line
\* 126) or by a sign and hh:mm[:ss]; an offset must stay below 24 hours.
FromIso(t) ==
    IF ~(ValidDate(t.y, t.m, t.d) /\ t.h \in 0 .. 23 /\ t.mi \in 0 .. 59 /\ t.s \in 0 .. 59)
    THEN Fail("ValueError: fromisoformat")
    ELSE LET local == MkInstant(t.y, t.m, t.d, t.h, t.mi, t.s)
         IN  IF t.tz = "naive" THEN Ok(local, "utc_iso_naive")
             ELSE IF t.tz = "Z" THEN Ok(local, "utc_iso_tz")
             ELSE IF ~(t.oh \in 0 .. 23 /\ t.om \in 0 .. 59 /\ t.os \in 0 .. 59)
             THEN Fail("ValueError: fromisoformat offset")
             ELSE LET off == (IF t.neg THEN -1 ELSE 1) * (t.oh * 3600 + t.om * 60 + t.os)
                  IN  Ok(MinusSeconds(local, off), "utc_iso_tz")

\* datetime.strptime(date + " " + time, "%d.%m.%Y %H:%M") inside the try of
\* lines 137-140: a date that is not a string has no strip(); every failure
\* becomes the ValueError of line 140
StrpLocal(date, time) ==
    IF /\ date.k = "str" /\ date.form = "dmy"
       /\ time.k = "str" /\ time.form = "hm"
       /\ ValidDate(date.y, date.m, date.d)
       /\ time.h \in 0 .. 23 /\ time.mi \in 0 .. 59
    THEN Ok(MkInstant(date.y, date.m, date.d, time.h, time.mi, 0), "")
    ELSE Fail("ValueError: date_local/time_local Format")

(***************************************************************************)
(* pytz.  Two zones are known: "UTC" and "Europe/Berlin" (UTC+1, and UTC+2 *)
(* from 26.3.2000 02:00 to 29.10.2000 03:00 local time; the dates of the   *)
(* model lie in 1999-12-31 .. 2000-12-31).  localize(dt, is_dst=None)      *)
(* raises for a local time that the change to summer time skips            *)
(* (NonExistentTimeError) or that the change back repeats                  *)
(* (AmbiguousTimeError).                                                   *)
(***************************************************************************)
BerlinGapStart == MkInstant(2000, 3, 26, 2, 0, 0)

BerlinFoldStart == MkInstant(2000, 10, 29, 2, 0, 0)

Before(a, b) == a.day < b.day \/ (a.day = b.day /\ a.sec < b.sec)

InHourFrom(dt, start) == ~Before(dt, start) /\ Before(dt, MinusSeconds(start, -3600))

\* tz.localize(dt, is_dst): the UTC offset it attaches, or the exception of
\* is_dst = None
Localize(zone, dt, is_dst) ==
    LET off(n) == [raised |-> "", utcoffset |-> n]
        pick   == IF is_dst = "true" THEN off(7200) ELSE off(3600)
    IN  IF zone = "UTC" THEN off(0)
        ELSE IF InHourFrom(dt, BerlinGapStart)
        THEN (IF is_dst = "none" THEN [raised |-> "NonExistentTimeError", utcoffset |-> 0] ELSE pick)
        ELSE IF InHourFrom(dt, BerlinFoldStart)
        THEN (IF is_dst = "none" THEN [raised |-> "AmbiguousTimeError", utcoffset |-> 0] ELSE pick)
        ELSE IF ~Before(dt, BerlinGapStart) /\ Before(dt, BerlinFoldStart) THEN off(7200)
        ELSE off(3600)

\* lines 143-151
LocalTzName(tz_name, naive) ==
    IF ~(tz_name.k = "str" /\ tz_name.form = "zone")
    THEN Fail("UnknownTimeZoneError")
    ELSE LET first == Localize(tz_name.name, naive, "none")
             local == IF first.raised = "NonExistentTimeError"
                      THEN MinusSeconds(naive, -3600) ELSE naive
             loc   == IF first.raised # "" THEN Localize(tz_name.name, local, "true") ELSE first
         IN  Ok(MinusSeconds(local, loc.utcoffset), "local_tzname")

\* int(float(x)) of a number given in half seconds: truncation towards zero
IntOfFloat(half) == IF half >= 0 THEN half \div 2 ELSE -((-half) \div 2)

\* a variant: the offset added instead of subtracted
LocalOffsetsAdded(raw, dst, naive) ==
    IF raw.k = "none" \/ dst.k = "none"
    THEN Fail("ValueError: tz_name oder (raw_offset & dst_offset) erforderlich")
    ELSE IF raw.k # "num" \/ dst.k # "num"
    THEN Fail("ValueError: float()")
    ELSE Ok(MinusSeconds(naive, -(IntOfFloat(raw.half) + IntOfFloat(dst.half))), "local_offsets")

\* lines 153-157
LocalOffsets(raw, dst, naive) ==
    IF raw.k = "none" \/ dst.k = "none"
    THEN Fail("ValueError: tz_name oder (raw_offset & dst_offset) erforderlich")
    ELSE IF raw.k # "num" \/ dst.k # "num"
    THEN Fail("ValueError: float()")
    ELSE Ok(MinusSeconds(naive, IntOfFloat(raw.half) + IntOfFloat(dst.half)), "local_offsets")

\* lines 131-157
LocalPath(data) ==
    LET date_local == PyOr(data.date_local, data.geburtsdatum)
        time_local == PyOr(data.time_local, data.geburtszeit)
    IN  IF ~Truthy(date_local) \/ ~Truthy(time_local)
        THEN Fail("ValueError: timestamp_utc oder (date_local & time_local) erforderlich")
        ELSE LET naive == StrpLocal(date_local, time_local)
             IN  IF ~naive.ok THEN naive
                 ELSE IF Truthy(data.tz_name) THEN LocalTzName(data.tz_name, naive.dt)
                 ELSE LocalOffsets(data.raw_offset, data.dst_offset, naive.dt)

\* a variant: a timestamp string that does not parse falls through to the local
\* fields instead of failing
parse_ts_falling_through(data) ==
    LET ts == data.timestamp_utc
    IN  IF ts.k = "num" THEN Ok(utcfromtimestamp(ts.v), "utc_unix")
        ELSE IF ts.k = "str" /\ ts.form = "digits" THEN Ok(utcfromtimestamp(ts.v), "utc_unix_str")
        ELSE IF ts.k = "str" /\ ts.form = "iso" /\ FromIso(ts).ok THEN FromIso(ts)
        ELSE LocalPath(data)

\* lines 117-157
parse_ts_from_inputs(data) ==
    LET ts == data.timestamp_utc
    IN  IF ts.k = "num" THEN Ok(utcfromtimestamp(ts.v), "utc_unix")
        ELSE IF ts.k = "str"
        THEN (IF ts.form = "digits" THEN Ok(utcfromtimestamp(ts.v), "utc_unix_str")
              ELSE IF ts.form = "iso" THEN FromIso(ts)
              ELSE Fail("ValueError: fromisoformat"))
        ELSE LocalPath(data)

\* the request dicts of the model
Str(form) == [k |-> "str", form |-> form]

Num(v) == [k |-> "num", v |-> v]

Iso(y, m, d, h, mi, sec, tz, neg, oh, om, os) ==
    [k |-> "str", form |-> "iso", y |-> y, m |-> m, d |-> d, h |-> h, mi |-> mi, s |-> sec,
     tz |-> tz, neg |-> neg, oh |-> oh, om |-> om, os |-> os]

Dmy(d, m, y) == [k |-> "str", form |-> "dmy", d |-> d, m |-> m, y |-> y]

Hm(h, mi, uhr) == [k |-> "str", form |-> "hm", h |-> h, mi |-> mi, uhr |-> uhr]

Zone(name) == [k |-> "str", form |-> "zone", name |-> name]

Secs(half) == [k |-> "num", half |-> half]

TsInputs ==
    {None, [k |-> "other"], Str("bad"), Num(946684800), Num(-1),
     [k |-> "str", form |-> "digits", v |-> 951782400],
     Iso(2000, 2, 29, 12, 0, 0, "naive", FALSE, 0, 0, 0),
     Iso(2000, 2, 29, 12, 0, 0, "Z", FALSE, 0, 0, 0),
     Iso(2000, 1, 1, 0, 30, 0, "off", FALSE, 1, 0, 0),
     Iso(2000, 2, 30, 12, 0, 0, "naive", FALSE, 0, 0, 0)}

DateInputs ==
    {None, Str("empty"), Str("bad"), [k |-> "other"],
     Dmy(31, 12, 1999), Dmy(26, 3, 2000), Dmy(29, 10, 2000), Dmy(30, 2, 2000)}

TimeOfDayInputs == {None, Str("bad"), Hm(2, 30, FALSE), Hm(23, 59, TRUE), Hm(24, 0, FALSE)}

TzInputs == {None, Str("empty"), Str("unknown"), Zone("UTC"), Zone("Europe/Berlin")}

\* offsets in half seconds: 0, 0.5 s, 1 h, -5:15:15 h, MaxOffsetDays days
RawInputs == {None, [k |-> "bad"], Secs(0), Secs(1), Secs(7200), Secs(-37830), Secs(MaxOffsetDays * 172800)}

DstInputs == {None, Secs(0), Secs(1), Secs(7200)}

TimeInputs ==
    {[timestamp_utc |-> ts, date_local |-> dl, geburtsdatum |-> gd, time_local |-> tl,
      geburtszeit |-> gz, tz_name |-> tz, raw_offset |-> raw, dst_offset |-> dst] :
        ts \in TsInputs, dl \in DateInputs, gd \in {None, Dmy(29, 2, 2000)},
        tl \in TimeOfDayInputs, gz \in {None, Hm(0, 0, FALSE)},
        tz \in TzInputs, raw \in RawInputs, dst \in DstInputs}

TimeInit ==
    /\ tPc = "call"
    /\ tData \in TimeInputs
    /\ tOut = NoResult
    /\ tTwin = NoResult
    /\ HouseIdle /\ WheelIdle /\ CuspIdle /\ SolverIdle

Resolve ==
    /\ tPc = "call"
    /\ tOut' = parse_ts_from_inputs(tData)
    /\ tPc' = "resolved"
    /\ UNCHANGED <<tData, tTwin, houseVars, wheelVars, cuspVars, solverVars>>

\* the ISO string that writes a local date and time with an offset appended
IsoWithOffset(date, time, offset) ==
    LET a == IF offset < 0 THEN -offset ELSE offset
    IN  Iso(date.y, date.m, date.d, time.h, time.mi, 0, "off",
            offset < 0, a \div 3600, (a % 3600) \div 60, a % 60)

\* after a resolution by local date, time and offsets whose sum is a whole
\* number of seconds: the same local date and time resolved as an ISO string
ResolveTwin ==
    /\ tPc = "resolved"
    /\ tOut.ok /\ tOut.mode = "local_offsets"
    /\ (tData.raw_offset.half + tData.dst_offset.half) % 2 = 0
    /\ tTwin' = parse_ts_from_inputs(
           [NoData EXCEPT !.timestamp_utc =
               IsoWithOffset(PyOr(tData.date_local, tData.geburtsdatum),
                             PyOr(tData.time_local, tData.geburtszeit),
                             (tData.raw_offset.half + tData.dst_offset.half) \div 2)])
    /\ tPc' = "twinned"
    /\ UNCHANGED <<tData, tOut, houseVars, wheelVars, cuspVars, solverVars>>

TimeNext == Resolve \/ ResolveTwin

TimeSpec == TimeInit /\ [][TimeNext]_vars

-----------------------------------------------------------------------------
(* Claims about parse_ts_from_inputs *)

WholeSeconds(v) == v.k = "num" /\ v.half % 2 = 0

TwinOffset == (tData.raw_offset.half + tData.dst_offset.half) \div 2

\* C7 as stated: for every whole-second offset raw_offset + dst_offset the
\* local date, time and offsets resolve to the instant of the ISO string that
\* writes the same date and time with the offset appended
C7_TwinAgreesAlways ==
    tPc = "twinned" => tTwin.ok /\ tTwin.dt = tOut.dt

\* C7 as amended: the same, for raw_offset and dst_offset each a whole number
\* of seconds and an offset of less than 24 hours either way
C7_TwinAgrees ==
    (/\ tPc = "twinned"
     /\ WholeSeconds(tData.raw_offset) /\ WholeSeconds(tData.dst_offset)
     /\ TwinOffset \in -86399 .. 86399)
    => tTwin.ok /\ tTwin.dt = tOut.dt /\ tTwin.mode = "utc_iso_tz"

\* 31.12.1999 23:59 at -5:15:15 h + 1 h is 1.1.2000 04:14:15 UTC on both paths
C7_Witness ==
    /\ tPc = "twinned"
    /\ tData.raw_offset = Secs(-37830) /\ tData.dst_offset = Secs(7200)
    /\ tTwin.ok /\ tTwin.dt = MkInstant(2000, 1, 1, 4, 14, 15) /\ tOut.dt = tTwin.dt

TsOnly(data) == [NoData EXCEPT !.timestamp_utc = data.timestamp_utc]

NoOffsets(data) == [data EXCEPT !.raw_offset = None, !.dst_offset = None]

HasLocalPair(data) ==
    Truthy(PyOr(data.date_local, data.geburtsdatum)) /\ Truthy(PyOr(data.time_local, data.geburtszeit))

\* C8: one path, in the order number, string, local + tz_name, local +
\* offsets.  A number or string timestamp decides the outcome alone and a
\* string that does not parse fails; with tz_name the offsets are ignored;
\* without timestamp and local pair, or without tz_name and both offsets, the
\* call fails
C8_Precedence ==
    tPc # "call" =>
        LET ts == tData.timestamp_utc
        IN  /\ ts.k \in {"num", "str"} =>
                /\ tOut = parse_ts_from_inputs(TsOnly(tData))
                /\ tOut.ok => tOut.mode \in {"utc_unix", "utc_unix_str", "utc_iso_naive", "utc_iso_tz"}
                /\ (ts.k = "str" /\ ts.form \notin {"digits", "iso"}) => ~tOut.ok
                /\ ts.k = "num" => tOut.ok /\ tOut.mode = "utc_unix"
            /\ (ts.k \notin {"num", "str"} /\ Truthy(tData.tz_name)) =>
                /\ tOut = parse_ts_from_inputs(NoOffsets(tData))
                /\ tOut.ok => tOut.mode = "local_tzname"
            /\ (ts.k = "none" /\ ~HasLocalPair(tData)) => ~tOut.ok
            /\ (/\ ts.k \notin {"num", "str"} /\ ~Truthy(tData.tz_name)
                /\ (tData.raw_offset.k = "none" \/ tData.dst_offset.k = "none")) => ~tOut.ok
            /\ (tOut.ok /\ tOut.mode = "local_offsets") =>
                ts.k \notin {"num", "str"} /\ ~Truthy(tData.tz_name)

\* a timestamp string that does not parse, beside a complete local date, time
\* and tz_name: the call fails
C8_Witness ==
    /\ tPc = "resolved"
    /\ tData.timestamp_utc = Str("bad")
    /\ tData.date_local = Dmy(26, 3, 2000) /\ tData.time_local = Hm(2, 30, FALSE)
    /\ tData.tz_name = Zone("Europe/Berlin") /\ tData.raw_offset = Secs(7200)
    /\ ~tOut.ok

-----------------------------------------------------------------------------
(* find_design_datetime_exact *)

(***************************************************************************)
(* Instants are offsets from the reference instant dt_birth_utc, kept as   *)
(* timedelta keeps them: [s |-> whole seconds, us |-> 0 .. 999999].        *)
(* datetime and timedelta arithmetic is exact integer arithmetic on        *)
(* microseconds; only timedelta / 2 rounds (half to even).                 *)
(*                                                                         *)
(* Angles are fixed point: [m |-> microdegrees, p |-> 0 .. 999999          *)
(* millionths of a microdegree].                                           *)
(*                                                                         *)
(* sun_lon_deg is the longitude function.  It is either linear, of         *)
(* constant rate (in microdegrees per second) through lref at the          *)
(* reference instant, or free: any function whatever, which answers each   *)
(* new instant with the target plus one of a few errors.  No instant is    *)
(* evaluated twice, so every sequence of answers is a function of time.    *)
(* In the bisection a free function answers as it likes for FreeSteps      *)
(* steps and then steers the bracket to its lower half, its upper half or  *)
(* the narrower half (bias).                                               *)
(***************************************************************************)
Turn == 360000000

ArcDeg == 88

\* one more round of widening than the loop allows
ThirteenAttempts == 12 + 1

MaxAttempts == 12

BisectSteps == 40

TdNorm(sec, us) == Td(sec + us \div 1000000, us % 1000000)

TdAdd(a, b) == TdNorm(a.s + b.s, a.us + b.us)

TdSub(a, b) == TdNorm(a.s - b.s, a.us - b.us)

TdLt(a, b) == a.s < b.s \/ (a.s = b.s /\ a.us < b.us)

Days(n) == Td(n * 86400, 0)

\* timedelta / 2: the microseconds are divided and rounded half to even
TdHalf(w) ==
    LET q  == w.us \div 2
        up == IF w.us % 2 = 1 /\ q % 2 = 1 THEN 1 ELSE 0
    IN  TdNorm(w.s \div 2, (w.s % 2) * 500000 + q + up)

\* t_lo + (t_hi - t_lo) / 2
Midpoint(lo, hi) == TdAdd(lo, TdHalf(TdSub(hi, lo)))

AngCarry(m, p) == Ang(m + p \div 1000000, p % 1000000)

AngAdd(a, b) == AngCarry(a.m + b.m, a.p + b.p)

AngSub(a, b) == AngCarry(a.m - b.m, a.p - b.p)

AngLt(a, b) == a.m < b.m \/ (a.m = b.m /\ a.p < b.p)

\* normalize_deg on fixed-point angles
NormalizeAngle(a) == Ang(a.m % Turn, a.p)

angle_diff_signed(a, b) ==
    LET d == NormalizeAngle(AngSub(a, b))
    IN  IF AngLt(Ang(Turn \div 2, 0), d) THEN Ang(d.m - Turn, d.p) ELSE d

Sign(f) == IF AngLt(Ang(0, 0), f) THEN 1 ELSE IF f.m < 0 THEN -1 ELSE 0

\* x * y > 0
ProductPositive(x, y) == Sign(x) * Sign(y) > 0

\* abs(f)
AbsAng(f) ==
    IF f.m >= 0 THEN f
    ELSE IF f.p = 0 THEN Ang(-f.m, 0) ELSE Ang(-f.m - 1, 1000000 - f.p)

\* a tolerance of a whole degree
WithinDegree(f) == AngLt(AbsAng(f), Ang(1000000, 0))

\* abs(f) < 1e-6
WithinTolerance(f) == AngLt(AbsAng(f), Ang(1, 0))

\* a linear longitude function at instant t
LinearLon(fn, t) ==
    NormalizeAngle(AngCarry(fn.lref.m + fn.rate * t.s, fn.lref.p + fn.rate * t.us))

\* the errors a free longitude function answers with: -2 degrees, half a
\* microdegree either way, none, 3 degrees
ErrInputs == {Ang(-2000000, 0), Ang(-1, 500000), Ang(0, 0), Ang(0, 500000), Ang(3000000, 0)}

\* the values sun_lon_deg(t) can take
sun_lon_deg(fn, t, tgt) ==
    IF fn.kind = "linear" THEN {LinearLon(fn, t)}
    ELSE IF t = Td(0, 0) THEN {NormalizeAngle(fn.lref)}
    ELSE {NormalizeAngle(AngAdd(tgt, e)) : e \in ErrInputs}

\* f(dt)
F(lon, tgt) == angle_diff_signed(lon, tgt)

\* the side a free function steers to after its free steps: TRUE for the
\* lower half (t_hi = t_mid)
WantLower(fn, lo, hi) ==
    LET w == TdSub(hi, lo)
        h == TdHalf(w)
    IN  fn.bias = "lower" \/ (fn.bias = "narrow" /\ ~TdLt(TdSub(w, h), h))

\* the values sun_lon_deg(t_mid) can take in bisection step n
MidValues(fn, n, lo, hi, flo, tgt) ==
    LET all == sun_lon_deg(fn, Midpoint(lo, hi), tgt)
    IN  IF fn.kind = "linear" \/ n < FreeSteps THEN all
        ELSE {lon \in all :
                 \/ WithinTolerance(F(lon, tgt))
                 \/ (~ProductPositive(flo, F(lon, tgt))) = WantLower(fn, lo, hi)}

InitLo == TdSub(Td(0, 0), Days(95))

InitHi == TdSub(Td(0, 0), Days(80))

WidenLo(t) == TdSub(t, Days(5))

\* a later bound that moves a week at a time
WidenHiWeek(t) == TdAdd(t, Days(7))

WidenHi(t) == TdAdd(t, Days(3))

RateInputs == {-12, 0, 1, 10, 11, 12, 13}

LrefInputs == {Ang(0, 0), Ang(45000000, 123456), Ang(359999999, 999999)}

FnInputs ==
    {fn \in [kind : {"linear"}, rate : RateInputs, lref : LrefInputs, bias : {""}] :
         fn.rate = 0 => fn.lref = Ang(0, 0)}
    \cup {[kind |-> "free", rate |-> 0, lref |-> l, bias |-> b] :
             l \in {Ang(0, 0), Ang(100000000, 0)}, b \in {"lower", "upper", "narrow"}}

SolverInit ==
    /\ sPc = "call"
    /\ sFn \in FnInputs
    /\ target = Ang(0, 0)
    /\ t_lo = Td(0, 0) /\ t_hi = Td(0, 0) /\ f_lo = Ang(0, 0) /\ f_hi = Ang(0, 0)
    /\ attempts = 0 /\ iters = 0 /\ evals = 0 /\ sRet = Td(0, 0) /\ sPath = ""
    /\ HouseIdle /\ WheelIdle /\ CuspIdle /\ TimeIdle

others == <<houseVars, wheelVars, cuspVars, timeVars>>

\* lines 254-268
Begin ==
    /\ sPc = "call"
    /\ \E lon_birth \in sun_lon_deg(sFn, Td(0, 0), Ang(0, 0)) :
         LET tgt == NormalizeAngle(AngSub(lon_birth, Ang(ArcDeg * 1000000, 0)))
         IN  /\ target' = tgt
             /\ \E a \in sun_lon_deg(sFn, InitLo, tgt), b \in sun_lon_deg(sFn, InitHi, tgt) :
                  /\ f_lo' = F(a, tgt)
                  /\ f_hi' = F(b, tgt)
    /\ t_lo' = InitLo
    /\ t_hi' = InitHi
    /\ attempts' = 0
    /\ evals' = 3
    /\ sPc' = "widen"
    /\ UNCHANGED <<sFn, iters, sRet, sPath, others>>

\* lines 269-274: one round of the while loop
Widen ==
    /\ sPc = "widen"
    /\ ProductPositive(f_lo, f_hi) /\ attempts < MaxAttempts
    /\ t_lo' = WidenLo(t_lo)
    /\ t_hi' = WidenHi(t_hi)
    /\ \E a \in sun_lon_deg(sFn, WidenLo(t_lo), target), b \in sun_lon_deg(sFn, WidenHi(t_hi), target) :
         /\ f_lo' = F(a, target)
         /\ f_hi' = F(b, target)
    /\ attempts' = attempts + 1
    /\ evals' = evals + 2
    /\ UNCHANGED <<sPc, sFn, target, iters, sRet, sPath, others>>

\* lines 277-278
Fallback ==
    /\ sPc = "widen"
    /\ ~(ProductPositive(f_lo, f_hi) /\ attempts < MaxAttempts)
    /\ ProductPositive(f_lo, f_hi)
    /\ sRet' = IF AngLt(AbsAng(f_lo), AbsAng(f_hi)) THEN t_lo ELSE t_hi
    /\ sPath' = "fallback"
    /\ sPc' = "done"
    /\ UNCHANGED <<sFn, target, t_lo, t_hi, f_lo, f_hi, attempts, iters, evals, others>>

\* line 281: the for loop is entered
EnterBisection ==
    /\ sPc = "widen"
    /\ ~(ProductPositive(f_lo, f_hi) /\ attempts < MaxAttempts)
    /\ ~ProductPositive(f_lo, f_hi)
    /\ iters' = 0
    /\ sPc' = "bisect"
    /\ UNCHANGED <<sFn, target, t_lo, t_hi, f_lo, f_hi, attempts, evals, sRet, sPath, others>>

\* lines 282-289: one round of the for loop
BisectStep ==
    /\ sPc = "bisect"
    /\ iters < BisectSteps
    /\ LET t_mid == Midpoint(t_lo, t_hi)
       IN  \E lon \in MidValues(sFn, iters, t_lo, t_hi, f_lo, target) :
             LET f_mid == F(lon, target)
             IN  IF WithinTolerance(f_mid)
                 THEN /\ sRet' = t_mid
                      /\ sPath' = "converged"
                      /\ sPc' = "done"
                      /\ UNCHANGED <<t_lo, t_hi, f_lo, f_hi>>
                 ELSE IF ~ProductPositive(f_lo, f_mid)
                 THEN /\ t_hi' = t_mid
                      /\ f_hi' = f_mid
                      /\ UNCHANGED <<t_lo, f_lo, sRet, sPath, sPc>>
                 ELSE /\ t_lo' = t_mid
                      /\ f_lo' = f_mid
                      /\ UNCHANGED <<t_hi, f_hi, sRet, sPath, sPc>>
    /\ iters' = iters + 1
    /\ evals' = evals + 1
    /\ UNCHANGED <<sFn, target, attempts, others>>

\* line 291
Finish ==
    /\ sPc = "bisect"
    /\ iters = BisectSteps
    /\ sRet' = Midpoint(t_lo, t_hi)
    /\ sPath' = "final"
    /\ sPc' = "done"
    /\ UNCHANGED <<sFn, target, t_lo, t_hi, f_lo, f_hi, attempts, iters, evals, others>>

SolverNext == Begin \/ Widen \/ Fallback \/ EnterBisection \/ BisectStep \/ Finish

SolverSpec == SolverInit /\ [][SolverNext]_vars

\* the loops run to their end whenever a step is possible
SolverLive == SolverSpec /\ WF_vars(SolverNext)

-----------------------------------------------------------------------------
(* Claims about find_design_datetime_exact *)

Reference == Td(0, 0)

\* C3: whatever the longitude function returns, the bracket keeps
\* t_lo < t_hi with t_hi before the reference instant through widening and
\* bisection, and the instant returned on any of the three return paths is
\* strictly earlier than the reference instant.
C3_EarlierThanReference ==
    /\ sPc \in {"widen", "bisect", "done"} => TdLt(t_lo, t_hi) /\ TdLt(t_hi, Reference)
    /\ sPc = "done" => TdLt(sRet, Reference)

\* an arbitrary function that let the bracket widen to the last round and
\* then bisected to the final midpoint
C3_Witness ==
    /\ sPc = "done" /\ sPath = "final"
    /\ sFn.kind = "free" /\ attempts = MaxAttempts

\* the signed circular error of the returned instant is within 1e-6 degree
ErrorWithinTolerance ==
    AngLt(AbsAng(angle_diff_signed(LinearLon(sFn, sRet), target)), Ang(1, 0))

CrossesInitialBracket(r) ==
    /\ r * 80 * 86400 <= ArcDeg * 1000000
    /\ ArcDeg * 1000000 <= r * 95 * 86400

C5_FallbackFlagged ==
    (hPc = "done" /\ hFallback) => hRet \notin 1..12

\* C6: every call ends, after at most 12 rounds of widening and at most 40
\* bisection steps, having evaluated the longitude function at most 67
\* times.
C6_Terminates ==
    /\ [](attempts <= 12 /\ iters <= 40 /\ evals <= 1 + 2 + 2 * 12 + 40)
    /\ <>(sPc = "done")

\* a call that used every evaluation
C6_Witness == sPc = "done" /\ evals = 67 /\ iters = 40

=============================================================================
